---- MODULE Spec2Model ----
(***************************************************************************)
(* The tiered AI Learning Assistant (streamlit_chatbot/app_new.py) with    *)
(* its credential store (auth.py) and its gateway, conversation logger and *)
(* session aggregate (config.py), as one state machine.                    *)
(*                                                                         *)
(* One step of the machine is one run of the page script main(): the run   *)
(* that handles one user event (a button, a form, a chat message), or the  *)
(* run that st.rerun() asks for, which only renders.                       *)
(***************************************************************************)
EXTENDS Integers, Sequences, FiniteSets, TLC

\* ------------------------------------------------------------------ bounds

\* Bloom's levels of the catalog (six in prompts.py).
NumLevels == 2
\* Session identifiers issued after the one of init_session_state.
MaxSessions == 3
\* Chat messages submitted in one behaviour.
MaxSubmits == 2
\* User records of the two stores together.
MaxUsers == 4
\* Concurrent callers of create_or_update_user_session, and the calls of each.
NumWriters == 2
MaxCalls == 2
MaxRows == 3
MaxRecipients == 3

\* ------------------------------------------------------- Python values

\* An Optional value: None, or the value wrapped.
None == <<>>
Some(v) == <<v>>
Val(o) == o[1]

\* Truthiness of an Optional dict, non-zero int or non-empty str.
Truthy(o) == o # None

\* str(i) of an int.
Str(i) == ToString(i)

\* ------------------------------------------------------- prompt catalog

\* One LevelConfig of cohort `cohort` of course `course`, under key `k`.
LevelConfig(course, cohort, k) ==
    [name |-> "Level " \o k,
     system_prompt |-> "You are the tutor of " \o course \o "/" \o cohort \o "/" \o k]

\* The "levels" dict of a cohort that configures the levels in S.
Levels(course, cohort, S) ==
    [k \in {Str(i) : i \in S} |-> LevelConfig(course, cohort, k)]

\* The catalog is the content of prompts_new.json, read by load_config at each
\* run: a file of the format that prompts.py builds (BloomsLevel, Course,
\* Cohort, LevelConfig).  prompts.py configures every level of every cohort;
\* a file need not, which is what the level_data test of
\* render_level_selection is for, so the catalog here has cohorts that omit
\* levels.
BLOOMS_LEVELS == [i \in 1..NumLevels |-> [id |-> i]]

\* The first cohort configures every level, the second omits the highest.
LAW_COURSE ==
    [id |-> "criminal_law", name |-> "Criminal Law",
     cohorts |-> <<
        [id |-> "teacher_ai_led", name |-> "Teacher + AI Led", type |-> "hybrid",
         levels |-> Levels("criminal_law", "teacher_ai_led", 1..NumLevels)],
        [id |-> "ai_led", name |-> "AI Led", type |-> "ai",
         levels |-> Levels("criminal_law", "ai_led", 1..(NumLevels - 1))] >>]

\* Its one cohort configures the first level only.
STROKE_COURSE ==
    [id |-> "stroke_analysis", name |-> "Stroke Localization & Triage",
     cohorts |-> <<
        [id |-> "ai_led", name |-> "AI Led", type |-> "ai",
         levels |-> Levels("stroke_analysis", "ai_led", {1})] >>]

load_config ==
    [blooms_levels |-> BLOOMS_LEVELS,
     courses |-> <<LAW_COURSE, STROKE_COURSE>>]

Range(s) == {s[i] : i \in DOMAIN s}

Courses == Range(load_config.courses)
Cohorts == UNION {Range(c.cohorts) : c \in Courses}
LevelIds == {load_config.blooms_levels[i].id : i \in DOMAIN load_config.blooms_levels}

\* --------------------------------------------------------------- state

VARIABLES
    \* st.session_state (init_session_state)
    session_id, current_view, selected_course, selected_cohort, selected_level,
    chat_histories, logged_in, user_id, user_name, username,
    \* the primary store's collections, in insertion order
    users, conversations, user_sessions,
    \* the local fallback files
    local_users, local_logs,
    \* uuid4 values issued for session identifiers
    uuid_count,
    \* datetime.utcnow() as a logical clock: the chat messages submitted so far
    clock,
    \* TRUE while a st.rerun() is pending: the next run only renders
    rerun,
    \* the last event a run handled: how the run ended, and what was typed
    event,
    \* the calls of create_or_update_user_session under way: for each caller
    \* its position, its chat_entry and the existing_session it has read
    writers,
    \* ingest_users.py: the mode of the run, the rows read from the CSV, the
    \* rows find_new_users kept, the statistics of ingest_users, the function
    \* the run is in and the row its loop is at
    full_import, csv_users, new_users, stats, pc, row,
    \* send_user_emails.py: whether the sender's credentials are set, the users
    \* handed to send_bulk_emails, its statistics, where the call is, the user
    \* its loop is at and the messages the relay has accepted, in order
    smtp_configured, recipients, mail_stats, mail_pc, mail_row, relay

session_vars ==
    <<session_id, current_view, selected_course, selected_cohort, selected_level,
      chat_histories, logged_in, user_id, user_name, username>>
nav_vars == <<current_view, selected_course, selected_cohort, selected_level>>
user_vars == <<logged_in, user_id, user_name, username>>
store_vars == <<users, conversations, user_sessions, local_users, local_logs>>
ingest_vars == <<full_import, csv_users, new_users, stats, pc, row>>
mail_vars == <<smtp_configured, recipients, mail_stats, mail_pc, mail_row, relay>>
script_vars == <<ingest_vars, mail_vars>>
vars == <<session_vars, store_vars, uuid_count, clock, rerun, event, writers,
          script_vars>>

\* Neither administrative script is run.
ScriptsIdle ==
    /\ full_import = FALSE
    /\ csv_users = <<>>
    /\ new_users = <<>>
    /\ stats = [total |-> 0, inserted |-> 0, skipped |-> 0, errors |-> <<>>]
    /\ pc = "done"
    /\ row = 1
    /\ smtp_configured = TRUE
    /\ recipients = <<>>
    /\ mail_stats = [total |-> 0, sent |-> 0, failed |-> 0, errors |-> <<>>]
    /\ mail_pc = "done"
    /\ mail_row = 1
    /\ relay = <<>>

\* An identifier that is issued again and again.
Uuid_Reused(n) == "uuid-0"

\* str(uuid.uuid4()): the n-th identifier issued, different from all before.
Uuid(n) == "uuid-" \o Str(n)

\* ------------------------------------------------------ credential store

\* hashlib.sha256(password.encode()).hexdigest(): one digest per password.
hash_password(password) == "sha256(" \o password \o ")"

\* The state of the primary store during one run: the client is there and
\* answers ("up"), get_mongo_client() returned None ("none"), the client is
\* there and its first call raises ("raise"), or its reads answer and its
\* write raises ("write_raise").
MongoModes == {"up", "none", "raise", "write_raise"}

\* collection.find_one: the first document, in insertion order, among the
\* documents of coll at the indices `hits`, the ones the filter matches.
FindOne(coll, hits) ==
    IF hits # {}
    THEN Some(coll[CHOOSE i \in hits : \A j \in hits : i <= j])
    ELSE None

\* The ObjectId the store gives the n-th document of a collection.
ObjectId(n) == "oid-" \o Str(n)

\* A fallback branch that accepts any password of a user it knows.
AuthenticateLocal_AnyPassword(lusers, u, p) ==
    IF u \in DOMAIN lusers
    THEN [authenticated |-> TRUE, user_id |-> lusers[u].user_id,
          user_name |-> lusers[u].name, username |-> u]
    ELSE [authenticated |-> FALSE]

\* The fallback branch of authenticate_user.
AuthenticateLocal(lusers, u, p) ==
    IF u \in DOMAIN lusers /\ lusers[u].password = hash_password(p)
    THEN [authenticated |-> TRUE, user_id |-> lusers[u].user_id,
          user_name |-> lusers[u].name, username |-> u]
    ELSE [authenticated |-> FALSE]

\* An authentication that asks the local file after the primary store
\* refused.
authenticate_user_LocalToo(mongo, musers, lusers, u, p) ==
    IF mongo \in {"up", "write_raise"}
    THEN LET user == FindOne(musers, {i \in DOMAIN musers : musers[i].username = u}) IN
         IF Truthy(user) /\ Val(user).password = hash_password(p)
         THEN [authenticated |-> TRUE, user_id |-> Val(user)._id,
               user_name |-> Val(user).name, username |-> u]
         ELSE AuthenticateLocal(lusers, u, p)
    ELSE AuthenticateLocal(lusers, u, p)

authenticate_user(mongo, musers, lusers, u, p) ==
    IF mongo \in {"up", "write_raise"}
    THEN LET user == FindOne(musers, {i \in DOMAIN musers : musers[i].username = u}) IN
         IF Truthy(user) /\ Val(user).password = hash_password(p)
         THEN [authenticated |-> TRUE, user_id |-> Val(user)._id,
               user_name |-> Val(user).name, username |-> u]
         ELSE [authenticated |-> FALSE]
    ELSE AuthenticateLocal(lusers, u, p)

\* str(uuid.uuid4()) of a new user: one more than the records of both stores,
\* which only grow.
UserUuid(musers, lusers) ==
    "user-" \o Uuid(Len(musers) + Cardinality(DOMAIN lusers) + 1)

\* A registration whose fallback branch overwrites the record of a username.
register_user_Overwrites(mongo, musers, lusers, u, p, name) ==
    LET uid == UserUuid(musers, lusers)
        found == Truthy(FindOne(musers, {i \in DOMAIN musers : musers[i].username = u}))
        document == [_id |-> ObjectId(Len(musers) + 1), user_id |-> uid,
                     username |-> u, password |-> hash_password(p), name |-> name]
    IN  IF mongo \in {"up", "write_raise"} /\ found
        THEN [result |-> [success |-> FALSE, message |-> "Username already exists"],
              users |-> musers, local_users |-> lusers]
        ELSE IF mongo = "up"
        THEN [result |-> [success |-> TRUE, user_id |-> uid,
                          message |-> "User registered successfully"],
              users |-> Append(musers, document), local_users |-> lusers]
        ELSE [result |-> [success |-> TRUE, user_id |-> uid,
                          message |-> "User registered successfully (local storage)"],
              users |-> musers,
              local_users |->
                 [k \in DOMAIN lusers \cup {u} |->
                    IF k = u
                    THEN [user_id |-> uid, password |-> hash_password(p), name |-> name]
                    ELSE lusers[k]]]

\* register_user: [result, users, local_users].
register_user(mongo, musers, lusers, u, p, name) ==
    LET uid == UserUuid(musers, lusers)
        found == Truthy(FindOne(musers, {i \in DOMAIN musers : musers[i].username = u}))
        document == [_id |-> ObjectId(Len(musers) + 1), user_id |-> uid,
                     username |-> u, password |-> hash_password(p), name |-> name]
        local == IF u \in DOMAIN lusers
                 THEN [result |-> [success |-> FALSE, message |-> "Username already exists"],
                       users |-> musers, local_users |-> lusers]
                 ELSE [result |-> [success |-> TRUE, user_id |-> uid,
                                   message |-> "User registered successfully (local storage)"],
                       users |-> musers,
                       local_users |->
                          [k \in DOMAIN lusers \cup {u} |->
                             IF k = u
                             THEN [user_id |-> uid, password |-> hash_password(p),
                                   name |-> name]
                             ELSE lusers[k]]]
    IN  IF mongo \in {"up", "write_raise"} /\ found
        THEN [result |-> [success |-> FALSE, message |-> "Username already exists"],
              users |-> musers, local_users |-> lusers]
        ELSE IF mongo = "up"
        THEN [result |-> [success |-> TRUE, user_id |-> uid,
                          message |-> "User registered successfully"],
              users |-> Append(musers, document), local_users |-> lusers]
        ELSE local

\* ------------------------------------------------------ login page

\* What is typed into the forms. "bob12" is shorter than the minimum length.
Usernames == {"", "alice", "admin", "bob"}
Passwords == {"", "wonderland", "admin123", "bob12"}
Names == {"", "Bob"}

\* render_login_page, Login tab: a submission of the login form.
LoginSubmit(mongo, u, p) ==
    /\ ~rerun /\ ~logged_in
    /\ IF u # "" /\ p # ""
       THEN LET result == authenticate_user(mongo, users, local_users, u, p) IN
            IF result.authenticated
            THEN /\ uuid_count < MaxSessions
                 /\ logged_in' = TRUE
                 /\ user_id' = Some(result.user_id)
                 /\ user_name' = Some(result.user_name)
                 /\ username' = Some(result.username)
                 /\ current_view' = "course_selection"
                 /\ session_id' = Uuid(uuid_count + 1)
                 /\ uuid_count' = uuid_count + 1
                 /\ rerun' = TRUE
                 /\ event' = [name |-> "login_ok", args |-> <<mongo, u, p>>]
            ELSE /\ event' = [name |-> "login_invalid", args |-> <<mongo, u, p>>]
                 /\ UNCHANGED <<user_vars, current_view, session_id, uuid_count, rerun>>
       ELSE /\ event' = [name |-> "login_empty", args |-> <<mongo, u, p>>]
            /\ UNCHANGED <<user_vars, current_view, session_id, uuid_count, rerun>>
    /\ UNCHANGED <<selected_course, selected_cohort, selected_level, chat_histories,
                   store_vars, clock>>
    /\ UNCHANGED <<writers, script_vars>>

\* The least length of a password that may be registered.
MIN_PASSWORD_LENGTH == 6

\* The checks of the form without the one of the password's length.
RegistrationError_NoLength(new_name, new_username, new_password, confirm_password) ==
    IF new_name = "" \/ new_username = "" \/ new_password = "" \/ confirm_password = ""
    THEN "register_empty"
    ELSE IF new_password # confirm_password
    THEN "register_mismatch"
    ELSE ""

\* render_login_page, Register tab: which check refuses the form, "" when
\* none does.
RegistrationError(new_name, new_username, new_password, confirm_password) ==
    IF new_name = "" \/ new_username = "" \/ new_password = "" \/ confirm_password = ""
    THEN "register_empty"
    ELSE IF new_password # confirm_password
    THEN "register_mismatch"
    ELSE IF Len(new_password) < MIN_PASSWORD_LENGTH
    THEN "register_short"
    ELSE ""

\* render_login_page, Register tab: a submission of the registration form.
RegisterSubmit(mongo, new_name, new_username, new_password, confirm_password) ==
    /\ ~rerun /\ ~logged_in
    /\ LET error == RegistrationError(new_name, new_username, new_password,
                                      confirm_password)
           args == <<mongo, new_name, new_username, new_password, confirm_password>>
       IN  IF error # ""
           THEN /\ event' = [name |-> error, args |-> args]
                /\ UNCHANGED <<users, local_users>>
           ELSE LET r == register_user(mongo, users, local_users,
                                       new_username, new_password, new_name) IN
                /\ r.result.success =>
                      Len(users) + Cardinality(DOMAIN local_users) < MaxUsers
                /\ users' = r.users
                /\ local_users' = r.local_users
                /\ event' = [name |-> IF r.result.success THEN "register_ok"
                                       ELSE "register_duplicate",
                             args |-> args]
    /\ UNCHANGED <<session_vars, conversations, user_sessions, local_logs,
                   uuid_count, clock, rerun>>
    /\ UNCHANGED <<writers, script_vars>>

\* ------------------------------------------------------ chat keys

\* get_chat_key: the key of the selected course, cohort and level, or None.
get_chat_key(course, cohort, level) ==
    IF Truthy(course) /\ Truthy(cohort) /\ Truthy(level)
    THEN Some(Val(course).id \o "_" \o Val(cohort).id \o "_" \o Str(Val(level)))
    ELSE None

\* An assignment that overwrites every entry of the dict.
DictSet_All(d, k, v) == [x \in DOMAIN d \cup {k} |-> v]

\* d with d[k] = v, the key added when new.
DictSet(d, k, v) == [x \in DOMAIN d \cup {k} |-> IF x = k THEN v ELSE d[x]]

EmptyDict == [x \in {} |-> <<>>]

\* ------------------------------------------------------ sidebar

\* render_sidebar: the Home button.
Home ==
    /\ ~rerun /\ logged_in
    /\ current_view' = "course_selection"
    /\ selected_course' = None
    /\ selected_cohort' = None
    /\ selected_level' = None
    /\ rerun' = TRUE
    /\ event' = [name |-> "home", args |-> <<>>]
    /\ UNCHANGED <<session_id, chat_histories, user_vars, store_vars, uuid_count, clock>>
    /\ UNCHANGED <<writers, script_vars>>

\* render_sidebar: the Back button shown while in chat.
SidebarBackChat ==
    /\ ~rerun /\ logged_in
    /\ current_view = "chat"
    /\ current_view' = "level_selection"
    /\ rerun' = TRUE
    /\ event' = [name |-> "back_chat", args |-> <<>>]
    /\ UNCHANGED <<session_id, selected_course, selected_cohort, selected_level,
                   chat_histories, user_vars, store_vars, uuid_count, clock>>
    /\ UNCHANGED <<writers, script_vars>>

\* render_sidebar: the Clear Chat button.
ClearChat ==
    /\ ~rerun /\ logged_in
    /\ current_view = "chat"
    /\ Truthy(selected_course) /\ Truthy(selected_cohort) /\ Truthy(selected_level)
    /\ LET chat_key == get_chat_key(selected_course, selected_cohort, selected_level) IN
       chat_histories' = IF Truthy(chat_key)
                         THEN DictSet(chat_histories, Val(chat_key), <<>>)
                         ELSE chat_histories
    /\ rerun' = TRUE
    /\ event' = [name |-> "clear_chat", args |-> <<>>]
    /\ UNCHANGED <<session_id, nav_vars, user_vars, store_vars, uuid_count, clock>>
    /\ UNCHANGED <<writers, script_vars>>

\* render_sidebar: the Back button of cohort_selection and level_selection.
SidebarBack ==
    /\ ~rerun /\ logged_in
    /\ current_view \in {"cohort_selection", "level_selection"}
    /\ IF current_view = "level_selection"
       THEN /\ current_view' = "cohort_selection"
            /\ UNCHANGED selected_course
       ELSE /\ current_view' = "course_selection"
            /\ selected_course' = None
    /\ rerun' = TRUE
    /\ event' = [name |-> "back", args |-> <<>>]
    /\ UNCHANGED <<session_id, selected_cohort, selected_level, chat_histories,
                   user_vars, store_vars, uuid_count, clock>>
    /\ UNCHANGED <<writers, script_vars>>

\* A Logout that leaves the screen where it is.
Logout_KeepsView ==
    /\ ~rerun /\ logged_in
    /\ logged_in' = FALSE
    /\ user_id' = None
    /\ user_name' = None
    /\ username' = None
    /\ session_id' = Uuid(uuid_count + 1)
    /\ uuid_count' = uuid_count + 1
    /\ chat_histories' = EmptyDict
    /\ rerun' = TRUE
    /\ event' = [name |-> "logout", args |-> <<>>]
    /\ UNCHANGED <<current_view, selected_course, selected_cohort, selected_level,
                   store_vars, clock>>
    /\ UNCHANGED <<writers, script_vars>>

\* render_sidebar: the Logout button.
Logout ==
    /\ ~rerun /\ logged_in
    /\ logged_in' = FALSE
    /\ user_id' = None
    /\ user_name' = None
    /\ username' = None
    /\ current_view' = "login"
    /\ session_id' = Uuid(uuid_count + 1)
    /\ uuid_count' = uuid_count + 1
    /\ chat_histories' = EmptyDict
    /\ rerun' = TRUE
    /\ event' = [name |-> "logout", args |-> <<>>]
    /\ UNCHANGED <<selected_course, selected_cohort, selected_level, store_vars, clock>>
    /\ UNCHANGED <<writers, script_vars>>

\* ------------------------------------------------------ selection pages

\* render_course_selection: the Select button of a course.
CoursePick(course) ==
    /\ ~rerun /\ logged_in
    /\ current_view = "course_selection"
    /\ selected_course' = Some(course)
    /\ current_view' = "cohort_selection"
    /\ rerun' = TRUE
    /\ event' = [name |-> "course_pick", args |-> <<course.id>>]
    /\ UNCHANGED <<session_id, selected_cohort, selected_level, chat_histories,
                   user_vars, store_vars, uuid_count, clock>>
    /\ UNCHANGED <<writers, script_vars>>

\* A cohort page that lists the cohorts of every course.
CohortPick_AnyCourse(cohort) ==
    /\ ~rerun /\ logged_in
    /\ current_view = "cohort_selection"
    /\ Truthy(selected_course)
    /\ selected_cohort' = Some(cohort)
    /\ current_view' = "level_selection"
    /\ rerun' = TRUE
    /\ event' = [name |-> "cohort_pick", args |-> <<cohort.id>>]
    /\ UNCHANGED <<session_id, selected_course, selected_level, chat_histories,
                   user_vars, store_vars, uuid_count, clock>>
    /\ UNCHANGED <<writers, script_vars>>

\* render_cohort_selection: the Select button of a cohort of the course.
CohortPick(cohort) ==
    /\ ~rerun /\ logged_in
    /\ current_view = "cohort_selection"
    /\ Truthy(selected_course)
    /\ cohort \in Range(Val(selected_course).cohorts)
    /\ selected_cohort' = Some(cohort)
    /\ current_view' = "level_selection"
    /\ rerun' = TRUE
    /\ event' = [name |-> "cohort_pick", args |-> <<cohort.id>>]
    /\ UNCHANGED <<session_id, selected_course, selected_level, chat_histories,
                   user_vars, store_vars, uuid_count, clock>>
    /\ UNCHANGED <<writers, script_vars>>

\* A level page that gives every level a Start button.
LevelAvailable_Always(cohort, level_id) == TRUE

\* render_level_selection: cohort.get("levels", {}).get(str(level_id)) is truthy,
\* so the level's card has a Start button.
LevelAvailable(cohort, level_id) == Str(level_id) \in DOMAIN cohort.levels

\* render_level_selection: the Start button of a level.
LevelPick(level_id) ==
    /\ ~rerun /\ logged_in
    /\ current_view = "level_selection"
    /\ Truthy(selected_course) /\ Truthy(selected_cohort)
    /\ LevelAvailable(Val(selected_cohort), level_id)
    /\ selected_level' = Some(level_id)
    /\ current_view' = "chat"
    /\ rerun' = TRUE
    /\ event' = [name |-> "level_pick", args |-> <<level_id>>]
    /\ UNCHANGED <<session_id, selected_course, selected_cohort, chat_histories,
                   user_vars, store_vars, uuid_count, clock>>
    /\ UNCHANGED <<writers, script_vars>>

\* ------------------------------------------------------ LLM gateway

\* One history entry in the provider's vocabulary.
ProviderTurn(msg) ==
    [role |-> IF msg.role = "user" THEN "user" ELSE "model", parts |-> <<msg.content>>]

\* The history get_gemini_response hands to model.start_chat.
ProviderHistory(chat_history) ==
    [i \in DOMAIN chat_history |-> ProviderTurn(chat_history[i])]

\* What get_gemini_response sends to the provider: the model it builds, the
\* history it starts the chat with and the message it sends.
GatewayCall(system_prompt, chat_history, user_message) ==
    [model_name |-> "gemini-2.0-flash", system_instruction |-> system_prompt,
     history |-> ProviderHistory(chat_history), message |-> user_message]

\* What the provider does with one call: it answers with a text, or any of
\* the calls made to it raises an exception with a message.
ProviderOutcomes ==
    {[ok |-> TRUE, text |-> "Mens rea is the guilty mind."],
     [ok |-> FALSE, error |-> "429 quota exceeded"]}

\* A gateway that hands the provider's error message on as it is.
get_gemini_response_RawError(system_prompt, chat_history, user_message, outcome) ==
    IF outcome.ok THEN outcome.text ELSE outcome.error

\* get_gemini_response: the provider's text, or the apology with str(e).
get_gemini_response(system_prompt, chat_history, user_message, outcome) ==
    IF outcome.ok
    THEN outcome.text
    ELSE "I apologize, but I encountered an error: " \o outcome.error

\* ------------------------------------------------------ conversation log

\* A log that leaves the user out of the entry.
log_conversation_Anonymous(mongo, convs, llogs, log_entry, local_ok) ==
    LET entry == [log_entry EXCEPT !.user_id = None] IN
    IF mongo = "up"
    THEN [conversations |-> Append(convs, entry), local_logs |-> llogs,
          raised |-> FALSE]
    ELSE IF local_ok
    THEN [conversations |-> convs, local_logs |-> Append(llogs, entry),
          raised |-> FALSE]
    ELSE [conversations |-> convs, local_logs |-> llogs, raised |-> TRUE]

\* A logger that writes the local file whatever the insert_one did.
log_conversation_Both(mongo, convs, llogs, log_entry, local_ok) ==
    [conversations |-> IF mongo = "up" THEN Append(convs, log_entry) ELSE convs,
     local_logs |-> Append(llogs, log_entry), raised |-> FALSE]

\* save_local_log and the insert_one of log_conversation:
\* [conversations, local_logs, raised]. local_ok is FALSE when the local file
\* cannot be read, parsed or written.
log_conversation(mongo, convs, llogs, log_entry, local_ok) ==
    IF mongo = "up"
    THEN [conversations |-> Append(convs, log_entry), local_logs |-> llogs,
          raised |-> FALSE]
    ELSE IF local_ok
    THEN [conversations |-> convs, local_logs |-> Append(llogs, log_entry),
          raised |-> FALSE]
    ELSE [conversations |-> convs, local_logs |-> llogs, raised |-> TRUE]

\* ------------------------------------------------------ session aggregate

\* An update that puts the entry in the place of the history.
UpdateOne_SetHistory(coll, sid, uid, chat_entry, tokens_used, update_data) ==
    LET first == CHOOSE i \in DOMAIN coll :
                    /\ coll[i].session_id = sid /\ coll[i].user_id = uid
                    /\ \A j \in 1..(i - 1) :
                          ~(coll[j].session_id = sid /\ coll[j].user_id = uid)
    IN  [coll EXCEPT ![first] =
            [@ EXCEPT !.chat_history = <<chat_entry>>,
                      !.usage_tokens = @ + tokens_used,
                      !.chat_end_time = update_data.chat_end_time]]

\* update_one on the first document of the pair: $push, $inc and $set.
UpdateOne(coll, sid, uid, chat_entry, tokens_used, update_data) ==
    LET first == CHOOSE i \in DOMAIN coll :
                    /\ coll[i].session_id = sid /\ coll[i].user_id = uid
                    /\ \A j \in 1..(i - 1) :
                          ~(coll[j].session_id = sid /\ coll[j].user_id = uid)
    IN  [coll EXCEPT ![first] =
            [@ EXCEPT !.chat_history = Append(@, chat_entry),
                      !.usage_tokens = @ + tokens_used,
                      !.chat_end_time = update_data.chat_end_time]]

\* The find_one of create_or_update_user_session: existing_session.
FindSession(coll, sid, uid) ==
    FindOne(coll, {i \in DOMAIN coll :
                     coll[i].session_id = sid /\ coll[i].user_id = uid})

\* An upsert that also sets the course, cohort and level of the aggregate it
\* finds to those of the turn.
WriteSession_SetsSelection(existing_session, coll, uid, uname, course, cohort, bloom_level, sid, chat_entry, tokens_used, now) ==
    IF Truthy(existing_session)
    THEN [i \in DOMAIN coll |->
            IF coll[i].session_id = sid /\ coll[i].user_id = uid
            THEN [coll[i] EXCEPT !.chat_history = Append(@, chat_entry),
                                 !.usage_tokens = @ + tokens_used,
                                 !.course_id = course.id, !.course_name = course.name,
                                 !.cohort_id = cohort.id, !.cohort_name = cohort.name,
                                 !.bloom_level = bloom_level]
            ELSE coll[i]]
    ELSE Append(coll,
           [session_id |-> sid, user_id |-> uid, user_name |-> uname,
            course_id |-> course.id, course_name |-> course.name,
            cohort_id |-> cohort.id, cohort_name |-> cohort.name,
            bloom_level |-> bloom_level,
            chat_start_time |-> now, chat_end_time |-> None,
            usage_tokens |-> tokens_used,
            chat_history |-> <<chat_entry>>])

\* What create_or_update_user_session does after its find_one, with a
\* chat_entry and is_end left False: the user_sessions collection afterwards.
\* An update_one whose filter matches no document changes nothing.
WriteSession(existing_session, coll, uid, uname, course, cohort, bloom_level, sid, chat_entry, tokens_used, now) ==
    IF Truthy(existing_session)
    THEN IF Truthy(FindSession(coll, sid, uid))
         THEN UpdateOne(coll, sid, uid, chat_entry, tokens_used,
                        [chat_end_time |-> Val(existing_session).chat_end_time])
         ELSE coll
    ELSE Append(coll,
           [session_id |-> sid, user_id |-> uid, user_name |-> uname,
            course_id |-> course.id, course_name |-> course.name,
            cohort_id |-> cohort.id, cohort_name |-> cohort.name,
            bloom_level |-> bloom_level,
            chat_start_time |-> now, chat_end_time |-> None,
            usage_tokens |-> tokens_used,
            chat_history |-> <<chat_entry>>])

\* An upsert that gives up only when there is no client.
create_or_update_user_session_NoTry(mongo, coll, uid, uname, course, cohort, bloom_level, sid, chat_entry, tokens_used, now) ==
    IF mongo = "none"
    THEN coll
    ELSE WriteSession(FindSession(coll, sid, uid), coll, uid, uname, course, cohort,
                      bloom_level, sid, chat_entry, tokens_used, now)

\* create_or_update_user_session called by one caller at a time: the
\* user_sessions collection afterwards.
create_or_update_user_session(mongo, coll, uid, uname, course, cohort, bloom_level, sid, chat_entry, tokens_used, now) ==
    IF mongo # "up"
    THEN coll
    ELSE WriteSession(FindSession(coll, sid, uid), coll, uid, uname, course, cohort,
                      bloom_level, sid, chat_entry, tokens_used, now)

\* No call of create_or_update_user_session is under way.
IdleWriters ==
    [w \in 1..NumWriters |->
       [pc |-> "idle", calls |-> 0, chat_entry |-> None, existing_session |-> None]]

\* ------------------------------------------------------ chat page

IsSpace(c) == c \in {" ", "\t", "\n", "\r"}

\* len(text.split()): the maximal runs of non-whitespace characters.
WordCount(text) ==
    Cardinality({i \in 1..Len(text) :
        /\ ~IsSpace(SubSeq(text, i, i))
        /\ (i = 1 \/ IsSpace(SubSeq(text, i - 1, i - 1)))})

\* What is typed into the chat input.
Prompts == {"What is mens rea?"}

\* A slice that keeps the last element.
ButLast_Whole(list) == list

\* list[:-1]
ButLast(list) == SubSeq(list, 1, Len(list) - 1)

\* A turn put in front of the list.
AppendTurn_Front(chat_history, role, content) ==
    <<[role |-> role, content |-> content]>> \o chat_history

\* chat_history.append({"role": role, "content": content})
AppendTurn(chat_history, role, content) ==
    Append(chat_history, [role |-> role, content |-> content])

\* The turn lists after the two appends of a submit.
SubmitTurns(chat_history, prompt, response) ==
    AppendTurn(AppendTurn(chat_history, "user", prompt), "assistant", response)

\* The greeting render_chat_interface displays above an empty turn list: by
\* the cohort's type, the one of "ai" for a type it does not know.
WelcomeMessage(course, cohort, level_name) ==
    IF cohort.type = "teacher"
    THEN "Welcome to " \o course.name \o " - " \o level_name
            \o "! I'm here to support your teacher-led learning at this level. Ask me any questions about the material."
    ELSE IF cohort.type = "hybrid"
    THEN "Welcome to " \o course.name \o " - " \o level_name
            \o "! I'm your AI teaching assistant. Let's work through this level together!"
    ELSE "Welcome to " \o course.name \o " - " \o level_name
            \o "! I'll be your primary instructor for this level. Let's begin!"

\* Exit Chat that forgets the level and stays on the chat page.
ExitChat_KeepsView ==
    /\ ~rerun /\ logged_in
    /\ current_view = "chat"
    /\ Truthy(selected_course) /\ Truthy(selected_cohort) /\ Truthy(selected_level)
    /\ selected_level' = None
    /\ rerun' = TRUE
    /\ event' = [name |-> "exit_chat", args |-> <<>>]
    /\ UNCHANGED <<session_id, current_view, selected_course, selected_cohort,
                   chat_histories, user_vars, store_vars, uuid_count, clock>>
    /\ UNCHANGED <<writers, script_vars>>

\* render_chat_interface: the Exit Chat button.
ExitChat ==
    /\ ~rerun /\ logged_in
    /\ current_view = "chat"
    /\ Truthy(selected_course) /\ Truthy(selected_cohort) /\ Truthy(selected_level)
    /\ current_view' = "level_selection"
    /\ selected_level' = None
    /\ rerun' = TRUE
    /\ event' = [name |-> "exit_chat", args |-> <<>>]
    /\ UNCHANGED <<session_id, selected_course, selected_cohort, chat_histories,
                   user_vars, store_vars, uuid_count, clock>>
    /\ UNCHANGED <<writers, script_vars>>

\* render_chat_interface: level_data of the selected level in the selected
\* cohort, {} where the cohort has no such level.
ResolveLevelData(cohort, level) ==
    IF Str(level) \in DOMAIN cohort.levels
    THEN Some(cohort.levels[Str(level)]) ELSE None

\* A lookup that falls back on the cohort's first level.
ResolveSystemPrompt_FirstLevel(cohort, level) ==
    IF Str(level) \in DOMAIN cohort.levels
    THEN cohort.levels[Str(level)].system_prompt
    ELSE cohort.levels["1"].system_prompt

\* render_chat_interface: system_prompt of level_data, "" by default.
ResolveSystemPrompt(cohort, level) ==
    LET level_data == ResolveLevelData(cohort, level)
    IN  IF Truthy(level_data) THEN Val(level_data).system_prompt ELSE ""

\* render_chat_interface: a message typed into the chat input, with the AI
\* configured. mongo_log and mongo_agg are the store's state during
\* log_conversation and during create_or_update_user_session.
Submit(prompt, outcome, mongo_log, mongo_agg, local_ok) ==
    /\ ~rerun /\ logged_in
    /\ current_view = "chat"
    /\ Truthy(selected_course) /\ Truthy(selected_cohort) /\ Truthy(selected_level)
    /\ clock < MaxSubmits
    /\ (mongo_log = "none") = (mongo_agg = "none")
    /\ LET course == Val(selected_course)
           cohort == Val(selected_cohort)
           level == Val(selected_level)
           system_prompt == ResolveSystemPrompt(cohort, level)
           chat_key == Val(get_chat_key(selected_course, selected_cohort, selected_level))
           chat_history == IF chat_key \in DOMAIN chat_histories
                           THEN chat_histories[chat_key] ELSE <<>>
           appended == AppendTurn(chat_history, "user", prompt)
           call == GatewayCall(system_prompt, ButLast(appended), prompt)
           response == get_gemini_response(system_prompt, ButLast(appended), prompt,
                                           outcome)
           now == clock + 1
           log_entry == [timestamp |-> now, course |-> course.name,
                         cohort |-> cohort.name, level |-> level,
                         user_query |-> prompt, ai_response |-> response,
                         session_id |-> session_id, user_id |-> user_id]
           logged == log_conversation(mongo_log, conversations, local_logs,
                                      log_entry, local_ok)
           chat_entry == [timestamp |-> now, user_question |-> prompt,
                          ai_response |-> response]
           stores == <<mongo_log, mongo_agg, local_ok>>
       IN  /\ chat_histories' =
                 DictSet(chat_histories, chat_key,
                         AppendTurn(appended, "assistant", response))
           /\ conversations' = logged.conversations
           /\ local_logs' = logged.local_logs
           /\ IF logged.raised
              THEN /\ event' = [name |-> "submit_raised",
                                   args |-> <<prompt, outcome, call, stores>>]
                   /\ UNCHANGED user_sessions
              ELSE /\ event' = [name |-> "submit",
                                   args |-> <<prompt, outcome, call, stores>>]
                   /\ user_sessions' =
                         create_or_update_user_session(mongo_agg, user_sessions,
                             user_id, user_name, course, cohort, level, session_id,
                             chat_entry, WordCount(prompt) + WordCount(response), now)
    /\ clock' = clock + 1
    /\ UNCHANGED <<session_id, nav_vars, user_vars, users, local_users,
                   uuid_count, rerun>>
    /\ UNCHANGED <<writers, script_vars>>

\* ------------------------------------------------------ concurrent callers

\* A caller builds its chat_entry, enters create_or_update_user_session with
\* the primary store up and gets the answer of find_one.
UpsertFind(w) ==
    /\ writers[w].pc = "idle" /\ writers[w].calls < MaxCalls
    /\ logged_in /\ current_view = "chat" /\ ~rerun
    /\ LET prompt == CHOOSE text \in Prompts : TRUE
           response == "Mens rea is the guilty mind."
           chat_entry == [timestamp |-> clock + 1, user_question |-> prompt,
                          ai_response |-> response]
       IN  writers' = [writers EXCEPT ![w] =
                         [pc |-> "write", calls |-> @.calls,
                          chat_entry |-> Some(chat_entry),
                          existing_session |->
                             FindSession(user_sessions, session_id, user_id)]]
    /\ clock' = clock + 1
    /\ event' = [name |-> "upsert_find", args |-> <<w>>]
    /\ UNCHANGED <<session_vars, store_vars, uuid_count, rerun, script_vars>>

\* The caller goes on with the existing_session it has read: update_one, or
\* insert_one of a new document.
UpsertWrite(w) ==
    /\ writers[w].pc = "write"
    /\ LET chat_entry == Val(writers[w].chat_entry)
           tokens_used == WordCount(chat_entry.user_question)
                             + WordCount(chat_entry.ai_response)
       IN  user_sessions' =
              WriteSession(writers[w].existing_session, user_sessions, user_id,
                           user_name, Val(selected_course), Val(selected_cohort),
                           Val(selected_level), session_id, chat_entry, tokens_used,
                           clock)
    /\ writers' = [writers EXCEPT ![w] =
                      [pc |-> "idle", calls |-> @.calls + 1, chat_entry |-> None,
                       existing_session |-> None]]
    /\ event' = [name |-> "upsert_write", args |-> <<w>>]
    /\ UNCHANGED <<session_vars, users, conversations, local_users, local_logs,
                   uuid_count, clock, rerun, script_vars>>

\* ------------------------------------------------------ user ingestion

\* A row of read_csv_users, with the username and password it has after the
\* missing ones were generated.
CsvUser(u, email) ==
    [username |-> u, email |-> email, name |-> "Student " \o u, password |-> "Pw1!" \o u]

CsvUsernames == {"bob", "carol"}
CsvEmails == {"bob@erg.edu", "carol@erg.edu"}
CsvUsers == {CsvUser(u, email) : u \in CsvUsernames, email \in CsvEmails}

\* collection.find_one({"username": ...}) and find_one({"email": ...}): a
\* document without the field does not match.
FindByUsername(coll, u) ==
    FindOne(coll, {i \in DOMAIN coll : coll[i].username = u})
FindByEmail(coll, email) ==
    FindOne(coll, {i \in DOMAIN coll :
                      "email" \in DOMAIN coll[i] /\ coll[i].email = email})

\* find_new_users, one turn of its loop: the row is kept when neither its
\* username nor its email is in the collection as it is now.
IsNewUser(coll, user) ==
    /\ ~Truthy(FindByUsername(coll, user.username))
    /\ ~Truthy(FindByEmail(coll, user.email))

\* A loop that inserts without looking for the username.
IngestUser_NoLookup(coll, user, mongo, st, uid) ==
    [users |-> Append(coll, [_id |-> ObjectId(Len(coll) + 1), user_id |-> uid,
                             username |-> user.username,
                             password |-> hash_password(user.password),
                             name |-> user.name, email |-> user.email,
                             source |-> "csv_import"]),
     stats |-> [st EXCEPT !.inserted = @ + 1]]

\* ingest_users, one turn of its loop with the collection's reads answering:
\* [users, stats] after the row.
IngestUser(coll, user, mongo, st, uid) ==
    LET existing == FindByUsername(coll, user.username)
        document == [_id |-> ObjectId(Len(coll) + 1), user_id |-> uid,
                     username |-> user.username,
                     password |-> hash_password(user.password),
                     name |-> user.name, email |-> user.email,
                     source |-> "csv_import"]
    IN  IF Truthy(existing)
        THEN [users |-> coll, stats |-> [st EXCEPT !.skipped = @ + 1]]
        ELSE IF mongo = "up"
        THEN [users |-> Append(coll, document),
              stats |-> [st EXCEPT !.inserted = @ + 1]]
        ELSE [users |-> coll,
              stats |-> [st EXCEPT !.errors =
                            Append(@, [username |-> user.username,
                                       error |-> "insert_one failed"])]]

\* The list ingest_users is given: every row of the CSV on a full import, the
\* rows find_new_users kept on a sync.
IngestList == IF full_import THEN csv_users ELSE new_users

\* find_new_users: one turn of the loop. A find_one that raises ends the run.
FindNewUser(mongo) ==
    /\ pc = "find_new_users" /\ row <= Len(csv_users)
    /\ mongo \in {"up", "raise"}
    /\ LET user == csv_users[row] IN
       IF mongo = "raise"
       THEN /\ pc' = "raised"
            /\ event' = [name |-> "find_raised", args |-> <<row, user>>]
            /\ UNCHANGED <<new_users, row>>
       ELSE /\ new_users' = IF IsNewUser(users, user)
                            THEN Append(new_users, user) ELSE new_users
            /\ row' = row + 1
            /\ event' = [name |-> "find_new", args |-> <<row, user>>]
            /\ UNCHANGED pc
    /\ UNCHANGED <<session_vars, store_vars, uuid_count, clock, rerun, writers,
                   full_import, csv_users, stats, mail_vars>>

\* sync_new_users after find_new_users: it returns when no row is new, and
\* calls ingest_users on the new rows otherwise.
SyncIngest ==
    /\ pc = "find_new_users" /\ row > Len(csv_users)
    /\ IF new_users = <<>>
       THEN /\ pc' = "done"
            /\ UNCHANGED stats
       ELSE /\ pc' = "ingest_users"
            /\ stats' = [total |-> Len(new_users), inserted |-> 0, skipped |-> 0,
                         errors |-> <<>>]
    /\ row' = 1
    /\ event' = [name |-> "sync_ingest", args |-> <<Len(new_users)>>]
    /\ UNCHANGED <<session_vars, store_vars, uuid_count, clock, rerun, writers,
                   full_import, csv_users, new_users, mail_vars>>

\* ingest_users: one turn of the loop, and the return after the last row.
IngestRow(mongo) ==
    /\ pc = "ingest_users" /\ row <= Len(IngestList)
    /\ mongo \in {"up", "write_raise", "raise"}
    /\ LET user == IngestList[row]
           after == IngestUser(users, user, mongo, stats, Uuid(uuid_count + 1))
       IN  IF mongo = "raise"
           THEN /\ pc' = "raised"
                /\ event' = [name |-> "ingest_raised", args |-> <<row, user>>]
                /\ UNCHANGED <<users, stats, row, uuid_count>>
           ELSE /\ users' = after.users
                /\ stats' = after.stats
                /\ uuid_count' = IF Truthy(FindByUsername(users, user.username))
                                 THEN uuid_count ELSE uuid_count + 1
                /\ row' = row + 1
                /\ pc' = IF row = Len(IngestList) THEN "done" ELSE pc
                /\ event' = [name |-> "ingest_row", args |-> <<row, user>>]
    /\ UNCHANGED <<session_vars, conversations, user_sessions, local_users,
                   local_logs, clock, rerun, writers, full_import, csv_users,
                   new_users, mail_vars>>

\* ------------------------------------------------------ email dispatch

\* What happens to one message between smtplib.SMTP(...) and sendmail: the
\* relay accepts it, or one of the calls raises.
SmtpOutcomes == {"accepted", "SMTPAuthenticationError", "SMTPException", "Exception"}

\* A send_email without the last except clause.
send_email_NoCatchAll(to_email, outcome, configured) ==
    IF ~configured
    THEN [raised |-> FALSE, success |-> FALSE,
          error |-> "GMAIL_SENDER_EMAIL or GMAIL_APP_PASSWORD not set in environment"]
    ELSE IF outcome = "accepted"
    THEN [raised |-> FALSE, success |-> TRUE, message |-> "Email sent to " \o to_email]
    ELSE IF outcome = "SMTPAuthenticationError"
    THEN [raised |-> FALSE, success |-> FALSE, error |-> "Authentication failed: " \o outcome]
    ELSE IF outcome = "SMTPException"
    THEN [raised |-> FALSE, success |-> FALSE, error |-> "SMTP error: " \o outcome]
    ELSE [raised |-> TRUE, success |-> FALSE, error |-> outcome]

\* send_email: the dict it returns; raised says that an exception leaves it.
send_email(to_email, outcome, configured) ==
    IF ~configured
    THEN [raised |-> FALSE, success |-> FALSE,
          error |-> "GMAIL_SENDER_EMAIL or GMAIL_APP_PASSWORD not set in environment"]
    ELSE IF outcome = "accepted"
    THEN [raised |-> FALSE, success |-> TRUE, message |-> "Email sent to " \o to_email]
    ELSE IF outcome = "SMTPAuthenticationError"
    THEN [raised |-> FALSE, success |-> FALSE, error |-> "Authentication failed: " \o outcome]
    ELSE IF outcome = "SMTPException"
    THEN [raised |-> FALSE, success |-> FALSE, error |-> "SMTP error: " \o outcome]
    ELSE [raised |-> FALSE, success |-> FALSE, error |-> outcome]

\* The user documents send_bulk_emails is given: one of a user who registered
\* in the application, which has no email, and two of imported users.
MailUsers ==
    {[username |-> "alice", name |-> "Alice"],
     [username |-> "bob", name |-> "Student bob", email |-> "bob@erg.edu"],
     [username |-> "carol", name |-> "Student carol", email |-> "carol@erg.edu"]}

\* send_bulk_emails: one turn of the loop, and the return after the last user.
SendBulk(outcome) ==
    /\ mail_pc = "send_bulk_emails" /\ mail_row <= Len(recipients)
    /\ LET user == recipients[mail_row]
           email == IF "email" \in DOMAIN user THEN Some(user.email) ELSE None
           name == user.name
           result == send_email(Val(email), outcome, smtp_configured)
           last == mail_row = Len(recipients)
       IN  IF ~Truthy(email) \/ Val(email) = ""
           THEN /\ mail_stats' =
                     [mail_stats EXCEPT !.failed = @ + 1,
                         !.errors = Append(@, [user |-> name,
                                               error |-> "No email address"])]
                /\ mail_row' = mail_row + 1
                /\ mail_pc' = IF last THEN "done" ELSE mail_pc
                /\ event' = [name |-> "send_skipped", args |-> <<mail_row, user>>]
                /\ UNCHANGED relay
           ELSE IF result.raised
           THEN /\ mail_pc' = "raised"
                /\ event' = [name |-> "send_raised", args |-> <<mail_row, user>>]
                /\ UNCHANGED <<mail_stats, mail_row, relay>>
           ELSE /\ mail_stats' =
                     IF result.success
                     THEN [mail_stats EXCEPT !.sent = @ + 1]
                     ELSE [mail_stats EXCEPT !.failed = @ + 1,
                              !.errors = Append(@, [user |-> name, email |-> Val(email),
                                                    error |-> result.error])]
                /\ relay' = IF result.success
                            THEN Append(relay, [to |-> Val(email), name |-> name])
                            ELSE relay
                /\ mail_row' = mail_row + 1
                /\ mail_pc' = IF last THEN "done" ELSE mail_pc
                /\ event' = [name |-> "send_row", args |-> <<mail_row, user>>]
    /\ UNCHANGED <<session_vars, store_vars, uuid_count, clock, rerun, writers,
                   ingest_vars, smtp_configured, recipients>>

\* ------------------------------------------------------ rendering run

\* Guards of which the one of render_level_selection looks at the course only.
GuardFails_CourseOnly(view, course, cohort, level) ==
    \/ view = "cohort_selection" /\ ~Truthy(course)
    \/ view = "level_selection" /\ ~Truthy(course)
    \/ view = "chat" /\ (~Truthy(course) \/ ~Truthy(cohort) \/ ~Truthy(level))

\* The guards of render_cohort_selection, render_level_selection and
\* render_chat_interface: the selection the view needs is missing.
GuardFails(view, course, cohort, level) ==
    \/ view = "cohort_selection" /\ ~Truthy(course)
    \/ view = "level_selection" /\ (~Truthy(course) \/ ~Truthy(cohort))
    \/ view = "chat" /\ (~Truthy(course) \/ ~Truthy(cohort) \/ ~Truthy(level))

\* A chat page that starts a new turn list each time it is entered.
Render_NewListEveryTime ==
    /\ rerun
    /\ IF ~logged_in
       THEN /\ rerun' = FALSE
            /\ UNCHANGED <<current_view, chat_histories, event>>
       ELSE IF GuardFails(current_view, selected_course, selected_cohort, selected_level)
       THEN /\ current_view' = "course_selection"
            /\ rerun' = TRUE
            /\ event' = [name |-> "guard_redirect", args |-> <<>>]
            /\ UNCHANGED chat_histories
       ELSE IF current_view = "chat"
       THEN LET chat_key == get_chat_key(selected_course, selected_cohort, selected_level) IN
            /\ chat_histories' = DictSet(chat_histories, Val(chat_key), <<>>)
            /\ rerun' = FALSE
            /\ UNCHANGED <<current_view, event>>
       ELSE /\ rerun' = FALSE
            /\ UNCHANGED <<current_view, chat_histories, event>>
    /\ UNCHANGED <<session_id, selected_course, selected_cohort, selected_level,
                   user_vars, store_vars, uuid_count, clock>>
    /\ UNCHANGED <<writers, script_vars>>

\* main after a st.rerun(): no event, the page of current_view is rendered.
Render ==
    /\ rerun
    /\ IF ~logged_in
       THEN /\ rerun' = FALSE
            /\ UNCHANGED <<current_view, chat_histories, event>>
       ELSE IF GuardFails(current_view, selected_course, selected_cohort, selected_level)
       THEN /\ current_view' = "course_selection"
            /\ rerun' = TRUE
            /\ event' = [name |-> "guard_redirect", args |-> <<>>]
            /\ UNCHANGED chat_histories
       ELSE IF current_view = "chat"
       THEN LET chat_key == get_chat_key(selected_course, selected_cohort, selected_level) IN
            /\ chat_histories' = IF Val(chat_key) \in DOMAIN chat_histories
                                 THEN chat_histories
                                 ELSE DictSet(chat_histories, Val(chat_key), <<>>)
            /\ rerun' = FALSE
            /\ UNCHANGED <<current_view, event>>
       ELSE /\ rerun' = FALSE
            /\ UNCHANGED <<current_view, chat_histories, event>>
    /\ UNCHANGED <<session_id, selected_course, selected_cohort, selected_level,
                   user_vars, store_vars, uuid_count, clock>>
    /\ UNCHANGED <<writers, script_vars>>

\* ------------------------------------------------------ specification

\* The stores before the first run: one user of the primary store, one of the
\* local file.
InitialUsers ==
    <<[_id |-> ObjectId(1), user_id |-> "user-" \o Uuid(1), username |-> "alice",
       password |-> hash_password("wonderland"), name |-> "Alice"]>>
InitialLocalUsers ==
    [u \in {"admin"} |-> [user_id |-> "user-" \o Uuid(2),
                          password |-> hash_password("admin123"), name |-> "Admin"]]

\* init_session_state on the first run of a browser session.
Init ==
    /\ session_id = Uuid(0)
    /\ current_view = "login"
    /\ selected_course = None
    /\ selected_cohort = None
    /\ selected_level = None
    /\ chat_histories = EmptyDict
    /\ logged_in = FALSE
    /\ user_id = None
    /\ user_name = None
    /\ username = None
    /\ users = InitialUsers
    /\ local_users = InitialLocalUsers
    /\ conversations = <<>>
    /\ user_sessions = <<>>
    /\ local_logs = <<>>
    /\ uuid_count = 0
    /\ clock = 0
    /\ rerun = FALSE
    /\ event = [name |-> "start", args |-> <<>>]
    /\ writers = IdleWriters
    /\ ScriptsIdle

\* Every run the page script can make.
Next ==
    \/ \E m \in MongoModes, u \in Usernames, p \in Passwords : LoginSubmit(m, u, p)
    \/ \E m \in MongoModes, n \in Names, u \in Usernames, p \in Passwords, c \in Passwords :
          RegisterSubmit(m, n, u, p, c)
    \/ Home
    \/ SidebarBackChat
    \/ ClearChat
    \/ SidebarBack
    \/ Logout
    \/ \E course \in Courses : CoursePick(course)
    \/ \E cohort \in Cohorts : CohortPick(cohort)
    \/ \E level_id \in LevelIds : LevelPick(level_id)
    \/ ExitChat
    \/ \E prompt \in Prompts, outcome \in ProviderOutcomes, ml \in MongoModes,
          ma \in MongoModes, local_ok \in BOOLEAN :
          Submit(prompt, outcome, ml, ma, local_ok)
    \/ \E w \in 1..NumWriters : UpsertFind(w)
    \/ \E w \in 1..NumWriters : UpsertWrite(w)
    \/ \E mongo \in {"up", "raise"} : FindNewUser(mongo)
    \/ SyncIngest
    \/ \E mongo \in {"up", "write_raise", "raise"} : IngestRow(mongo)
    \/ \E outcome \in SmtpOutcomes : SendBulk(outcome)
    \/ Render

Spec == Init /\ [][Next]_vars

\* The sidebar and the selection pages.
Navigate ==
    \/ Home
    \/ SidebarBackChat
    \/ ClearChat
    \/ SidebarBack
    \/ \E course \in Courses : CoursePick(course)
    \/ \E cohort \in Cohorts : CohortPick(cohort)
    \/ \E level_id \in LevelIds : LevelPick(level_id)
    \/ ExitChat

\* The navigation state machine: the two users of the initial stores log in
\* and out and navigate; nobody registers and no message is submitted.
NextNav ==
    \/ \E m \in {"up", "none"}, u \in {"alice", "admin"}, p \in {"wonderland", "admin123"} :
          LoginSubmit(m, u, p)
    \/ Navigate
    \/ Logout
    \/ Render

SpecNav == Init /\ [][NextNav]_vars

\* The login form of a browser session nobody has logged in to yet.
FirstLogin(mongo, u, p) == uuid_count = 0 /\ LoginSubmit(mongo, u, p)

\* The sidebar and the pages of one course.
NavigateCourse(course) ==
    \/ Home
    \/ SidebarBackChat
    \/ ClearChat
    \/ SidebarBack
    \/ CoursePick(course)
    \/ \E cohort \in Cohorts : CohortPick(cohort)
    \/ \E level_id \in LevelIds : LevelPick(level_id)
    \/ ExitChat

\* The chat of one login session: one user of the primary store, which is
\* up, logs in once, chats in one course and logs out.
NextChat ==
    \/ \E p \in {"wonderland", "admin123"} : FirstLogin("up", "alice", p)
    \/ NavigateCourse(LAW_COURSE)
    \/ \E prompt \in Prompts, outcome \in ProviderOutcomes :
          Submit(prompt, outcome, "up", "up", TRUE)
    \/ Logout
    \/ Render

SpecChat == Init /\ [][NextChat]_vars

\* Login sessions one after the other in one browser session: a user of the
\* primary store or of the local file logs in, navigates in one course,
\* chats with the primary store up, and logs out.
NextSession ==
    \/ \E m \in {"up", "none"}, u \in {"alice", "admin"}, p \in {"wonderland", "admin123"} :
          LoginSubmit(m, u, p)
    \/ NavigateCourse(LAW_COURSE)
    \/ \E prompt \in Prompts, outcome \in ProviderOutcomes :
          Submit(prompt, outcome, "up", "up", TRUE)
    \/ Logout
    \/ Render

SpecSession == Init /\ [][NextSession]_vars

\* Registration forms as <<name, username, password, confirmation>>: each
\* field left empty, a confirmation that differs, a password of five
\* characters with and without its confirmation, and forms that pass the
\* validation with a new username and with the username of either store.
RegistrationForms ==
    {<<"", "bob", "wonderland", "wonderland">>,
     <<"Bob", "", "wonderland", "wonderland">>,
     <<"Bob", "bob", "", "wonderland">>,
     <<"Bob", "bob", "wonderland", "">>,
     <<"Bob", "bob", "wonderland", "admin123">>,
     <<"Bob", "bob", "bob12", "bob12">>,
     <<"Bob", "bob", "bob12", "wonderland">>,
     <<"Bob", "bob", "wonderland", "wonderland">>,
     <<"Bob", "alice", "wonderland", "wonderland">>,
     <<"Bob", "admin", "admin123", "admin123">>}

\* The conversation log of one login session: every state of the primary
\* store and of the local file at each submit.
NextLog ==
    \/ FirstLogin("up", "alice", "wonderland")
    \/ CoursePick(LAW_COURSE)
    \/ \E cohort \in Cohorts : CohortPick(cohort)
    \/ \E level_id \in LevelIds : LevelPick(level_id)
    \/ \E prompt \in Prompts, outcome \in ProviderOutcomes, ml \in MongoModes,
          ma \in MongoModes, local_ok \in BOOLEAN :
          Submit(prompt, outcome, ml, ma, local_ok)
    \/ Render

SpecLog == Init /\ [][NextLog]_vars

\* The login page: login, registration and logout.
NextAuth ==
    \/ \E m \in MongoModes, u \in Usernames, p \in Passwords : LoginSubmit(m, u, p)
    \/ \E m \in MongoModes, f \in RegistrationForms :
          RegisterSubmit(m, f[1], f[2], f[3], f[4])
    \/ Logout
    \/ Render

SpecAuth == Init /\ [][NextAuth]_vars

\* A session on the chat page of a level, nothing submitted yet.
InitUpsert ==
    /\ session_id = Uuid(1)
    /\ current_view = "chat"
    /\ selected_course = Some(LAW_COURSE)
    /\ selected_cohort = Some(LAW_COURSE.cohorts[2])
    /\ selected_level = Some(1)
    /\ chat_histories = DictSet(EmptyDict, "criminal_law_ai_led_1", <<>>)
    /\ logged_in = TRUE
    /\ user_id = Some(InitialUsers[1]._id)
    /\ user_name = Some(InitialUsers[1].name)
    /\ username = Some(InitialUsers[1].username)
    /\ users = InitialUsers
    /\ local_users = InitialLocalUsers
    /\ conversations = <<>>
    /\ user_sessions = <<>>
    /\ local_logs = <<>>
    /\ uuid_count = 1
    /\ clock = 0
    /\ rerun = FALSE
    /\ event = [name |-> "start", args |-> <<>>]
    /\ writers = IdleWriters
    /\ ScriptsIdle

\* Callers of create_or_update_user_session that share the session
\* identifier and the user, their calls interleaved at the store's operations.
NextUpsert ==
    \/ \E w \in 1..NumWriters : UpsertFind(w)
    \/ \E w \in 1..NumWriters : UpsertWrite(w)

SpecUpsert == InitUpsert /\ [][NextUpsert]_vars

\* The chat page opened on any course, cohort of that course and level id,
\* whether the cohort has the level or not.
InitResolve ==
    /\ session_id = Uuid(1)
    /\ current_view = "chat"
    /\ \E course \in Courses :
          /\ selected_course = Some(course)
          /\ selected_cohort \in {Some(c) : c \in Range(course.cohorts)}
    /\ selected_level \in {Some(l) : l \in LevelIds}
    /\ chat_histories = EmptyDict
    /\ logged_in = TRUE
    /\ user_id = Some(InitialUsers[1]._id)
    /\ user_name = Some(InitialUsers[1].name)
    /\ username = Some(InitialUsers[1].username)
    /\ users = InitialUsers
    /\ local_users = InitialLocalUsers
    /\ conversations = <<>>
    /\ user_sessions = <<>>
    /\ local_logs = <<>>
    /\ uuid_count = 1
    /\ clock = 0
    /\ rerun = TRUE
    /\ event = [name |-> "start", args |-> <<>>]
    /\ writers = IdleWriters
    /\ ScriptsIdle

NextResolve ==
    \/ \E prompt \in Prompts, outcome \in ProviderOutcomes :
          Submit(prompt, outcome, "up", "up", TRUE)
    \/ ClearChat
    \/ Render

SpecResolve == InitResolve /\ [][NextResolve]_vars

\* The users collection before a run of the ingestion script: the user who
\* registered in the application, and with or without a user of an earlier
\* import.
ImportedUser ==
    [_id |-> ObjectId(2), user_id |-> Uuid(3), username |-> "bob",
     password |-> hash_password("Pw1!bob"), name |-> "Student bob",
     email |-> "bob@erg.edu", source |-> "csv_import"]

\* main of ingest_users.py after read_csv_users: a CSV of at most MaxRows
\* rows, in full-import or in sync mode.
InitIngest ==
    /\ session_id = Uuid(0)
    /\ current_view = "login"
    /\ selected_course = None
    /\ selected_cohort = None
    /\ selected_level = None
    /\ chat_histories = EmptyDict
    /\ logged_in = FALSE
    /\ user_id = None
    /\ user_name = None
    /\ username = None
    /\ users \in {InitialUsers, Append(InitialUsers, ImportedUser)}
    /\ local_users = InitialLocalUsers
    /\ conversations = <<>>
    /\ user_sessions = <<>>
    /\ local_logs = <<>>
    /\ uuid_count = 3
    /\ clock = 0
    /\ rerun = FALSE
    /\ event = [name |-> "start", args |-> <<>>]
    /\ writers = IdleWriters
    /\ full_import \in BOOLEAN
    /\ csv_users \in UNION {[1..n -> CsvUsers] : n \in 0..MaxRows}
    /\ new_users = <<>>
    /\ stats = [total |-> IF full_import THEN Len(csv_users) ELSE 0,
                inserted |-> 0, skipped |-> 0, errors |-> <<>>]
    /\ pc = IF ~full_import THEN "find_new_users"
            ELSE IF csv_users = <<>> THEN "done" ELSE "ingest_users"
    /\ row = 1
    /\ smtp_configured = TRUE
    /\ recipients = <<>>
    /\ mail_stats = [total |-> 0, sent |-> 0, failed |-> 0, errors |-> <<>>]
    /\ mail_pc = "done"
    /\ mail_row = 1
    /\ relay = <<>>

NextIngest ==
    \/ \E mongo \in {"up", "raise"} : FindNewUser(mongo)
    \/ SyncIngest
    \/ \E mongo \in {"up", "write_raise", "raise"} : IngestRow(mongo)

SpecIngest == InitIngest /\ [][NextIngest]_vars

\* send_bulk_emails called on at most MaxRecipients users, with the sender's
\* credentials set in the environment or not.
InitSend ==
    /\ session_id = Uuid(0)
    /\ current_view = "login"
    /\ selected_course = None
    /\ selected_cohort = None
    /\ selected_level = None
    /\ chat_histories = EmptyDict
    /\ logged_in = FALSE
    /\ user_id = None
    /\ user_name = None
    /\ username = None
    /\ users = InitialUsers
    /\ local_users = InitialLocalUsers
    /\ conversations = <<>>
    /\ user_sessions = <<>>
    /\ local_logs = <<>>
    /\ uuid_count = 2
    /\ clock = 0
    /\ rerun = FALSE
    /\ event = [name |-> "start", args |-> <<>>]
    /\ writers = IdleWriters
    /\ full_import = FALSE
    /\ csv_users = <<>>
    /\ new_users = <<>>
    /\ stats = [total |-> 0, inserted |-> 0, skipped |-> 0, errors |-> <<>>]
    /\ pc = "done"
    /\ row = 1
    /\ smtp_configured \in BOOLEAN
    /\ recipients \in UNION {[1..n -> MailUsers] : n \in 0..MaxRecipients}
    /\ mail_stats = [total |-> Len(recipients), sent |-> 0, failed |-> 0,
                     errors |-> <<>>]
    /\ mail_pc = IF recipients = <<>> THEN "done" ELSE "send_bulk_emails"
    /\ mail_row = 1
    /\ relay = <<>>

NextSend == \E outcome \in SmtpOutcomes : SendBulk(outcome)

SpecSend == InitSend /\ [][NextSend]_vars

\* The loop of send_bulk_emails goes on while it has a user left.
FairSpecSend == SpecSend /\ WF_vars(NextSend)

\* A session state of any shape, a user logged in, about to be rendered.
InitRender ==
    /\ session_id = Uuid(1)
    /\ current_view \in {"course_selection", "cohort_selection", "level_selection", "chat"}
    /\ selected_course \in {None} \cup {Some(c) : c \in Courses}
    /\ selected_cohort \in {None} \cup {Some(c) : c \in Cohorts}
    /\ selected_level \in {None} \cup {Some(l) : l \in LevelIds}
    /\ chat_histories \in
          {EmptyDict,
           DictSet(EmptyDict, "criminal_law_ai_led_1",
                   SubmitTurns(<<>>, "What is mens rea?", "Mens rea is the guilty mind."))}
    /\ logged_in = TRUE
    /\ user_id = Some(InitialUsers[1]._id)
    /\ user_name = Some(InitialUsers[1].name)
    /\ username = Some(InitialUsers[1].username)
    /\ users = InitialUsers
    /\ local_users = InitialLocalUsers
    /\ conversations = <<>>
    /\ user_sessions = <<>>
    /\ local_logs = <<>>
    /\ uuid_count = 1
    /\ clock = 0
    /\ rerun = TRUE
    /\ event = [name |-> "start", args |-> <<>>]
    /\ writers = IdleWriters
    /\ ScriptsIdle

\* The rendering run on every such state.
SpecRender == InitRender /\ [][Render]_vars

\* ------------------------------------------------------ properties

\* The step is the run that handled event `name`.
Handled(name) == ~rerun /\ event'.name = name

\* The chat key of the selection, written out.
SelectedKey ==
    Val(selected_course).id \o "_" \o Val(selected_cohort).id \o "_"
        \o Str(Val(selected_level))

\* C1: whenever the current screen is chat, the selected Course, Cohort and
\* Level are all set.
ChatHasFullSelection ==
    current_view = "chat" =>
        /\ selected_course # None
        /\ selected_cohort # None
        /\ selected_level # None

\* C1: the chat page of a second login session, after a logout.
ChatAfterRelogin ==
    /\ current_view = "chat" /\ ~rerun
    /\ uuid_count >= 3
    /\ event.name = "level_pick"

\* C2: the Logout action leaves the screen login, the selected Course, Cohort
\* and Level cleared, a new session identifier and no chat turn list.
LogoutClearsEverything ==
    [][Handled("logout") =>
        /\ current_view' = "login"
        /\ selected_course' = None
        /\ selected_cohort' = None
        /\ selected_level' = None
        /\ session_id' # session_id
        /\ chat_histories' = EmptyDict]_vars

\* C3: every step from chat to level_selection leaves the selected Level
\* cleared and the selected Course and Cohort unchanged.
ChatExitClearsLevel ==
    [][~rerun /\ current_view = "chat" /\ current_view' = "level_selection" =>
        /\ selected_level' = None
        /\ UNCHANGED <<selected_course, selected_cohort>>]_vars

\* C4: a course pick moves from course_selection to cohort_selection with
\* that Course recorded and the selected Cohort and Level unset.
CoursePickClearsCohortLevel ==
    [][Handled("course_pick") =>
        /\ current_view = "course_selection"
        /\ current_view' = "cohort_selection"
        /\ selected_course' # None
        /\ Val(selected_course').id = event'.args[1]
        /\ selected_cohort' = None
        /\ selected_level' = None]_vars

\* C5: on level_selection, a step reaches chat or records a Level only as the
\* pick of a level the selected Cohort has a LevelConfig for, and it leaves
\* the turn lists alone; for a level without a LevelConfig no pick is enabled.
LevelPickOnlyConfigured ==
    /\ [][~rerun /\ current_view = "level_selection"
            /\ (current_view' = "chat" \/ Handled("level_pick")) =>
            /\ selected_cohort # None
            /\ selected_level' # None
            /\ Str(Val(selected_level')) \in DOMAIN Val(selected_cohort).levels
            /\ Val(selected_level') = event'.args[1]
            /\ current_view' = "chat"
            /\ UNCHANGED <<selected_course, selected_cohort, chat_histories>>]_vars
    /\ [](\A level_id \in LevelIds :
            (selected_cohort # None
             /\ Str(level_id) \notin DOMAIN Val(selected_cohort).levels)
            => ~ENABLED LevelPick(level_id))

\* C5: a level picked in a cohort that leaves another level unconfigured.
LevelPickedWhereOneIsMissing ==
    /\ event.name = "level_pick" /\ current_view = "chat"
    /\ \E level_id \in LevelIds :
          Str(level_id) \notin DOMAIN Val(selected_cohort).levels

\* C6: a rendering run on cohort_selection without a Course, level_selection
\* without a Course or a Cohort, or chat without a Course, a Cohort or a Level
\* sets the screen to course_selection and leaves every turn list as it was.
GuardForcesCourseSelection ==
    [][(/\ rerun /\ logged_in
        /\ \/ current_view = "cohort_selection" /\ selected_course = None
           \/ current_view = "level_selection"
                /\ (selected_course = None \/ selected_cohort = None)
           \/ current_view = "chat"
                /\ (selected_course = None \/ selected_cohort = None
                    \/ selected_level = None))
        => (current_view' = "course_selection" /\ UNCHANGED chat_histories)]_vars

\* C6: a redirect of a session that holds a turn list and a Cohort, no Level.
GuardRedirected ==
    /\ event.name = "guard_redirect" /\ current_view = "course_selection"
    /\ chat_histories # EmptyDict
    /\ selected_cohort # None /\ selected_level = None

\* C7: a login that authenticates sets logged_in, records the user id, the
\* display name and the username of the user's record, moves from login to
\* course_selection and replaces the session identifier by another one.
LoginSuccessStartsSession ==
    [][Handled("login_ok") =>
        LET u == event'.args[2] IN
        /\ u # "" /\ event'.args[3] # ""
        /\ ~logged_in /\ current_view = "login"
        /\ logged_in' /\ current_view' = "course_selection"
        /\ username' = Some(u)
        /\ \/ \E i \in DOMAIN users :
                 /\ users[i].username = u
                 /\ user_id' = Some(users[i]._id)
                 /\ user_name' = Some(users[i].name)
           \/ /\ u \in DOMAIN local_users
              /\ user_id' = Some(local_users[u].user_id)
              /\ user_name' = Some(local_users[u].name)
        /\ session_id' # session_id]_vars

\* C7: a user registered by the form has logged in.
RegisteredUserLoggedIn ==
    /\ event.name = "login_ok" /\ logged_in /\ current_view = "course_selection"
    /\ username = Some("bob")

\* C8: a rejected entry on the login page (an empty login field, a failed
\* authentication, a registration with an empty field, a mismatching
\* confirmation, a password shorter than 6, a duplicate username) and a
\* successful registration leave the session as it was, the screen login and
\* logged_in false; the refused logins and the registrations refused by
\* validation write no record.
RejectedEntryChangesNothing ==
    [][~rerun /\ ~logged_in /\ event'.name # "logout" =>
        LET a == event'.args
            is_login == Len(a) = 3
            login_rejected ==
                is_login /\ (a[2] = "" \/ a[3] = "" \/ event'.name = "login_invalid")
            invalid ==
                ~is_login /\ (a[2] = "" \/ a[3] = "" \/ a[4] = "" \/ a[5] = ""
                              \/ a[4] # a[5] \/ Len(a[4]) < 6)
            registered == event'.name \in {"register_duplicate", "register_ok"}
        IN  /\ (login_rejected \/ invalid \/ registered) =>
                  /\ UNCHANGED <<session_vars, rerun>>
                  /\ current_view' = "login" /\ ~logged_in'
            /\ (login_rejected \/ invalid) => UNCHANGED store_vars
            /\ event'.name = "register_ok" => ~invalid]_vars

\* C8: a duplicate username refused after a registration that succeeded.
DuplicateRefusedAfterRegistration ==
    /\ event.name = "register_duplicate"
    /\ Len(users) + Cardinality(DOMAIN local_users) > 2
    /\ current_view = "login" /\ ~logged_in

\* C9: a submit extends the turn list of the current key by the user turn and
\* one assistant turn, which holds the provider's text or, when the provider
\* fails, the apology with the error's message; no other list changes.
SubmitAppendsTwoTurns ==
    [][~rerun /\ event'.name \in {"submit", "submit_raised"} =>
        LET prompt == event'.args[1]
            outcome == event'.args[2]
            before == IF SelectedKey \in DOMAIN chat_histories
                      THEN chat_histories[SelectedKey] ELSE <<>>
            answer == IF outcome.ok THEN outcome.text
                      ELSE "I apologize, but I encountered an error: " \o outcome.error
        IN  /\ DOMAIN chat_histories' = DOMAIN chat_histories \cup {SelectedKey}
            /\ Len(chat_histories'[SelectedKey]) = Len(before) + 2
            /\ chat_histories'[SelectedKey] =
                  before \o <<[role |-> "user", content |-> prompt],
                              [role |-> "assistant", content |-> answer]>>
            /\ \A k \in DOMAIN chat_histories \ {SelectedKey} :
                  chat_histories'[k] = chat_histories[k]]_vars

\* C9: a second submit to one key whose provider call failed.
FailedSecondSubmit ==
    /\ event.name = "submit" /\ ~event.args[2].ok
    /\ current_view = "chat"
    /\ Len(chat_histories[SelectedKey]) = 4

\* C10: Clear Chat empties the turn list of the current key and changes no
\* other turn list, no selection, no screen, no log entry and no aggregate.
ClearChatOnlyCurrentKey ==
    [][Handled("clear_chat") =>
        /\ DOMAIN chat_histories' = DOMAIN chat_histories \cup {SelectedKey}
        /\ chat_histories'[SelectedKey] = <<>>
        /\ \A k \in DOMAIN chat_histories \ {SelectedKey} :
              chat_histories'[k] = chat_histories[k]
        /\ UNCHANGED <<nav_vars, user_vars, session_id, store_vars>>]_vars

\* C10: the current key cleared while another key of the session holds the
\* turns of a submit, both submits logged.
ClearedBesideAnotherKey ==
    /\ event.name = "clear_chat" /\ current_view = "chat"
    /\ chat_histories[SelectedKey] = <<>>
    /\ \E k \in DOMAIN chat_histories : Len(chat_histories[k]) = 2
    /\ Len(conversations) = 2 /\ user_sessions # <<>>
    /\ <<conversations[1].cohort, conversations[1].level>>
          # <<conversations[2].cohort, conversations[2].level>>

\* C11: a submit calls the provider with the system prompt of the selected
\* course, cohort and level, with the text typed, and with a history that is
\* the turn list of the key as it was before the submit, turn by turn in the
\* same order, user as user and assistant as model, each content whole.
SubmitSendsPriorTurns ==
    [][~rerun /\ event'.name \in {"submit", "submit_raised"} =>
        LET call == event'.args[3]
            before == IF SelectedKey \in DOMAIN chat_histories
                      THEN chat_histories[SelectedKey] ELSE <<>>
        IN  /\ call.system_instruction =
                  "You are the tutor of " \o Val(selected_course).id \o "/"
                     \o Val(selected_cohort).id \o "/" \o Str(Val(selected_level))
            /\ call.message = event'.args[1]
            /\ Len(call.history) = Len(before)
            /\ \A i \in 1..Len(before) :
                  /\ call.history[i].parts = <<before[i].content>>
                  /\ call.history[i].role =
                        (IF before[i].role = "user" THEN "user" ELSE "model")]_vars

\* C11: a submit that sent the two turns of the submit before it.
SecondSubmitSentHistory ==
    /\ event.name = "submit"
    /\ Len(event.args[3].history) = 2
    /\ event.args[3].history[1].role = "user"
    /\ event.args[3].history[2].role = "model"

\* C12: every turn list has even length and alternates user, assistant from
\* a user turn on; a user turn holds a text typed into the chat input and an
\* assistant turn a return value of the gateway, never a welcome greeting;
\* and a step leaves a list as it was, empties it, or adds two turns at its
\* end.
TurnListsAlternate ==
    /\ [](\A k \in DOMAIN chat_histories :
            LET list == chat_histories[k] IN
            /\ Len(list) % 2 = 0
            /\ \A i \in 1..Len(list) :
                  /\ list[i].role = (IF i % 2 = 1 THEN "user" ELSE "assistant")
                  /\ i % 2 = 1 => list[i].content \in Prompts
                  /\ i % 2 = 0 =>
                        \E outcome \in ProviderOutcomes :
                           list[i].content = get_gemini_response("", <<>>, "", outcome)
                  /\ \A course \in Courses, cohort \in Cohorts, level_id \in LevelIds :
                        /\ list[i].content #
                              WelcomeMessage(course, cohort, "Level " \o Str(level_id))
                        /\ Str(level_id) \in DOMAIN cohort.levels =>
                              list[i].content #
                                WelcomeMessage(course, cohort,
                                               cohort.levels[Str(level_id)].name))
    /\ [][\A k \in DOMAIN chat_histories' :
            LET before == IF k \in DOMAIN chat_histories THEN chat_histories[k]
                          ELSE <<>>
                after == chat_histories'[k]
            IN  \/ after = before
                \/ after = <<>>
                \/ /\ Len(after) = Len(before) + 2
                   /\ SubSeq(after, 1, Len(before)) = before]_vars

\* C12: the chat page rendered with the empty list of one key, which shows
\* the greeting, while another key holds the turns of two submits.
GreetingShownBesideTurns ==
    /\ current_view = "chat" /\ ~rerun /\ logged_in
    /\ SelectedKey \in DOMAIN chat_histories
    /\ chat_histories[SelectedKey] = <<>>
    /\ \E k \in DOMAIN chat_histories : Len(chat_histories[k]) = 4

\* The log entries of one session of one user, in the order written.
TurnsOf(sid, uid) ==
    SelectSeq(conversations, LAMBDA e : e.session_id = sid /\ e.user_id = uid)

\* The aggregates of one session of one user.
AggregatesOf(sid, uid) ==
    SelectSeq(user_sessions, LAMBDA a : a.session_id = sid /\ a.user_id = uid)

RECURSIVE WordsOf(_)
\* The words of the questions and answers of a sequence of log entries, each
\* text counted by its spaces: one word more than it has spaces.
WordsOf(turns) ==
    IF turns = <<>> THEN 0
    ELSE LET Spaces(text) == Cardinality({i \in 1..Len(text) : SubSeq(text, i, i) = " "})
         IN  Spaces(Head(turns).user_query) + 1 + Spaces(Head(turns).ai_response) + 1
                + WordsOf(Tail(turns))

\* C13: with the primary store up, the submits of one session of one user
\* leave one aggregate for the pair, whose chat_history is the questions and
\* answers in the order submitted and whose usage_tokens is the sum of their
\* word counts.
OneAggregatePerSession ==
    /\ \A i \in DOMAIN user_sessions :
          TurnsOf(user_sessions[i].session_id, user_sessions[i].user_id) # <<>>
    /\ \A n \in DOMAIN conversations :
          LET sid == conversations[n].session_id
              uid == conversations[n].user_id
              turns == TurnsOf(sid, uid)
              aggregates == AggregatesOf(sid, uid)
          IN  /\ Len(aggregates) = 1
              /\ aggregates[1].chat_history =
                    [i \in DOMAIN turns |->
                       [timestamp |-> turns[i].timestamp,
                        user_question |-> turns[i].user_query,
                        ai_response |-> turns[i].ai_response]]
              /\ aggregates[1].usage_tokens = WordsOf(turns)

\* C13: the aggregate after an answered and a failed submit of a session:
\* 4 + 6 words and 4 + 10 words.
AggregateOfTwoTurns ==
    /\ Len(user_sessions) = 1
    /\ Len(user_sessions[1].chat_history) = 2
    /\ user_sessions[1].chat_history[1].timestamp = 1
    /\ user_sessions[1].chat_history[1].ai_response = "Mens rea is the guilty mind."
    /\ user_sessions[1].chat_history[2].timestamp = 2
    /\ user_sessions[1].chat_history[2].ai_response # "Mens rea is the guilty mind."
    /\ user_sessions[1].usage_tokens = 24

\* C14: an aggregate that holds the second turn of its session has an end
\* time.
SecondTurnSetsEndTime ==
    \A i \in DOMAIN user_sessions :
       Len(user_sessions[i].chat_history) >= 2 => user_sessions[i].chat_end_time # None

RECURSIVE CallsMade(_)
\* The calls the first n callers have completed.
CallsMade(n) == IF n = 0 THEN 0 ELSE writers[n].calls + CallsMade(n - 1)

\* C15: whatever the interleaving of the callers that share a session
\* identifier and a user, the collection holds at most one aggregate of the
\* pair, and once no call is under way that aggregate holds the chat entry
\* and the tokens of every call made.
ConcurrentUpsertIsAtomic ==
    /\ \A i, j \in DOMAIN user_sessions :
          (/\ user_sessions[i].session_id = user_sessions[j].session_id
           /\ user_sessions[i].user_id = user_sessions[j].user_id) => i = j
    /\ (\A w \in 1..NumWriters : writers[w].pc = "idle") =>
          \A i \in DOMAIN user_sessions :
             LET made == CallsMade(NumWriters) IN
             /\ Len(user_sessions[i].chat_history) = made
             /\ user_sessions[i].usage_tokens = 10 * made

\* C16: no submit ends with an exception of log_conversation, whatever the
\* state of the primary store and of the local file.
LogTurnNeverRaises == event.name # "submit_raised"

\* The entry log_conversation builds for the submit a step makes.
SubmittedEntry ==
    [timestamp |-> clock', course |-> Val(selected_course).name,
     cohort |-> Val(selected_cohort).name, level |-> Val(selected_level),
     user_query |-> event'.args[1],
     ai_response |-> chat_histories'[SelectedKey][Len(chat_histories'[SelectedKey])].content,
     session_id |-> session_id, user_id |-> user_id]

\* C17, as claimed: every submit adds its entry either at the end of the
\* conversations collection, when the primary insert succeeds, or else at
\* the end of the local file.
EveryTurnLoggedOnce ==
    [][~rerun /\ event'.name \in {"submit", "submit_raised"} =>
        IF event'.args[4][1] = "up"
        THEN conversations' = Append(conversations, SubmittedEntry)
                /\ UNCHANGED local_logs
        ELSE local_logs' = Append(local_logs, SubmittedEntry)
                /\ UNCHANGED conversations]_vars

\* C17, amended: a submit adds its entry at the end of the conversations
\* collection when the primary insert succeeds; otherwise at the end of the
\* local file when that file can be read and written; otherwise nowhere, and
\* the submit raises. No step changes or removes an entry of either place.
TurnLoggedOnceUnlessBothFail ==
    /\ [][~rerun /\ event'.name \in {"submit", "submit_raised"} =>
            IF event'.args[4][1] = "up"
            THEN /\ conversations' = Append(conversations, SubmittedEntry)
                 /\ UNCHANGED local_logs
                 /\ event'.name = "submit"
            ELSE IF event'.args[4][3]
            THEN /\ local_logs' = Append(local_logs, SubmittedEntry)
                 /\ UNCHANGED conversations
                 /\ event'.name = "submit"
            ELSE /\ UNCHANGED <<conversations, local_logs>>
                 /\ event'.name = "submit_raised"]_vars
    /\ [][/\ Len(conversations') >= Len(conversations)
          /\ SubSeq(conversations', 1, Len(conversations)) = conversations
          /\ Len(local_logs') >= Len(local_logs)
          /\ SubSeq(local_logs', 1, Len(local_logs)) = local_logs]_vars

\* C17: the second entry of the local file written, by a submit whose primary
\* insert raised.
SecondLocalEntryWritten ==
    /\ event.name = "submit"
    /\ event.args[4][1] = "write_raise"
    /\ Len(local_logs) = 2 /\ conversations = <<>>
    /\ local_logs[1].timestamp = 1 /\ local_logs[2].timestamp = 2

\* The primary store holds a user u whose digest is the one of p.
PrimaryHolds(u, p) ==
    \E i \in DOMAIN users :
       users[i].username = u /\ users[i].password = hash_password(p)

\* The local file holds a user u whose digest is the one of p.
LocalHolds(u, p) ==
    u \in DOMAIN local_users /\ local_users[u].password = hash_password(p)

FallbackOnlyWithoutPrimary ==
    [][~rerun /\ ~logged_in /\ event'.name # "logout" =>
        LET a == event'.args IN
        /\ (/\ event'.name \in {"login_ok", "login_invalid"}
            /\ a[1] \in {"up", "write_raise"}) =>
              /\ (\A i \in DOMAIN users : users[i].username # a[2]) =>
                    event'.name = "login_invalid"
              /\ event'.name = "login_ok" =>
                    \E i \in DOMAIN users :
                       /\ users[i].username = a[2]
                       /\ user_id' = Some(users[i]._id)
                       /\ user_name' = Some(users[i].name)
        /\ (/\ event'.name = "login_ok"
            /\ a[2] \in DOMAIN local_users
            /\ user_id' = Some(local_users[a[2]].user_id)) =>
              a[1] \in {"none", "raise"}
        /\ ~(users' # users /\ local_users' # local_users)]_vars

\* C19: a user registered in the local file is refused with the password
\* registered while the primary store is up.
FallbackUserRefusedByPrimary ==
    /\ event.name = "login_invalid"
    /\ event.args = <<"up", "bob", "wonderland">>
    /\ LocalHolds("bob", "wonderland")
    /\ \A i \in DOMAIN users : users[i].username # "bob"

\* The user records of a username in the two stores together.
RecordsOf(musers, lusers, u) ==
    Cardinality({i \in DOMAIN musers : musers[i].username = u})
       + (IF u \in DOMAIN lusers THEN 1 ELSE 0)

\* A step is the register_user call that follows a successful one for the
\* same username, which has left one record.
SecondRegistration ==
    /\ ~rerun /\ ~logged_in
    /\ event.name = "register_ok"
    /\ RecordsOf(users, local_users, event.args[3]) = 1
    /\ event'.name \in {"register_ok", "register_duplicate"}
    /\ event'.args[3] = event.args[3]

\* C20, as claimed: the register_user call that follows a successful one for
\* the same username is refused as a duplicate and writes nothing, whatever
\* the state of the primary store at either call.
SecondRegistrationRefused ==
    [][SecondRegistration =>
        /\ event'.name = "register_duplicate"
        /\ UNCHANGED <<users, local_users>>]_vars

\* C20, amended: the second call is refused and writes nothing when it
\* consults the store that holds the record (the primary store if its lookup
\* answers, the local file if the lookup or the insert fails); when it
\* consults only the other store it succeeds and leaves a second record.
SecondRegistrationRefusedBySameStore ==
    [][SecondRegistration =>
        LET u == event'.args[3]
            mongo == event'.args[1]
            in_primary == \E i \in DOMAIN users : users[i].username = u
            in_local == u \in DOMAIN local_users
        IN  IF \/ in_primary /\ mongo \in {"up", "write_raise"}
               \/ in_local /\ mongo \in {"none", "raise", "write_raise"}
            THEN /\ event'.name = "register_duplicate"
                 /\ UNCHANGED <<users, local_users>>
            ELSE /\ event'.name = "register_ok"
                 /\ RecordsOf(users', local_users', u) = 2
                 /\ (in_primary => local_users' # local_users /\ UNCHANGED users)
                 /\ (in_local => users' # users /\ UNCHANGED local_users)]_vars

\* C20: a username registered in the local file refused by a call whose
\* primary insert fails; one record of it exists.
DuplicateRefusedByFallback ==
    /\ event.name = "register_duplicate"
    /\ event.args[1] = "write_raise" /\ event.args[3] = "bob"
    /\ RecordsOf(users, local_users, "bob") = 1
    /\ "bob" \in DOMAIN local_users

\* C21: the system prompt sent with a submit is the one the catalog holds for
\* the selected cohort and level, a non-empty text, when the cohort has the
\* level; it is the empty text, and the submit goes through, when the cohort
\* has not; the selected course, cohort and level are left as they were.
PromptResolvedFromCatalog ==
    [][Handled("submit") =>
         LET cohort == Val(selected_cohort)
             level == Val(selected_level)
             sent == event'.args[3].system_instruction
         IN  /\ \E course \in Courses : cohort \in Range(course.cohorts)
             /\ Str(level) \in DOMAIN cohort.levels =>
                   /\ sent = cohort.levels[Str(level)].system_prompt
                   /\ sent # ""
             /\ Str(level) \notin DOMAIN cohort.levels => sent = ""
             /\ UNCHANGED nav_vars]_vars

\* A submit on a level the cohort has not went out with the empty prompt.
SubmittedWithoutLevelConfig ==
    /\ event.name = "submit"
    /\ Str(Val(selected_level)) \notin DOMAIN Val(selected_cohort).levels
    /\ event.args[3].system_instruction = ""
    /\ Len(chat_histories[SelectedKey]) = 2

\* The user records that carry an email.
WithEmail == {i \in DOMAIN users : "email" \in DOMAIN users[i]}

\* C22: a sync run of the ingestion script leaves no two user records with
\* the same email.
SyncNeverSharesEmail ==
    ~full_import =>
       \A i, j \in WithEmail : users[i].email = users[j].email => i = j

\* C23: ingest_users handles the rows of its list one after the other, each
\* once; a row whose username is in the collection, put there before the run
\* or by an earlier row of it, is skipped and the collection stays as it is;
\* any other row adds at most one record, after the ones there; no two
\* records ever have the same username; and when the run is over inserted +
\* skipped + the number of errors is the total.
IngestHandlesEachRowOnce ==
    /\ [](\A i, j \in DOMAIN users : users[i].username = users[j].username => i = j)
    /\ [](pc \in {"ingest_users", "done"} =>
            /\ stats.total = Len(IngestList)
            /\ stats.inserted + stats.skipped + Len(stats.errors)
                  = IF pc = "done" THEN stats.total ELSE row - 1)
    /\ [][pc = "ingest_users" /\ event'.name = "ingest_row" =>
            LET user == IngestList[row] IN
            /\ event'.args = <<row, user>>
            /\ row' = row + 1
            /\ pc' = "done" <=> row = Len(IngestList)
            /\ UNCHANGED <<csv_users, new_users, full_import>>
            /\ SubSeq(users', 1, Len(users)) = users
            /\ IF \E i \in DOMAIN users : users[i].username = user.username
               THEN /\ users' = users
                    /\ stats' = [stats EXCEPT !.skipped = @ + 1]
               ELSE \/ /\ Len(users') = Len(users) + 1
                       /\ users'[Len(users')].username = user.username
                       /\ stats' = [stats EXCEPT !.inserted = @ + 1]
                    \/ /\ users' = users
                       /\ Len(stats'.errors) = Len(stats.errors) + 1
                       /\ stats'.inserted = stats.inserted
                       /\ stats'.skipped = stats.skipped]_vars

\* A full import is over in which a row was inserted, the next row with the
\* same username was skipped and the insert of another row failed.
SkippedRowOfSameRun ==
    /\ full_import /\ pc = "done"
    /\ Len(csv_users) = 3
    /\ csv_users[1].username = "carol" /\ csv_users[2].username = "carol"
    /\ stats.inserted = 1 /\ stats.skipped = 1 /\ Len(stats.errors) = 1
    /\ \E i \in DOMAIN users : users[i].username = "carol"
                                  /\ users[i].email = csv_users[1].email

\* C24: send_bulk_emails takes its users one after the other, each once,
\* whatever happened to the ones before; a user counts as sent when the relay
\* accepted the message and as failed, with one error record, otherwise; no
\* exception leaves the loop; and the call ends with sent + failed = total.
BulkSendReachesEveryRecipient ==
    /\ [](/\ mail_pc # "raised"
          /\ mail_stats.total = Len(recipients)
          /\ Len(mail_stats.errors) = mail_stats.failed
          /\ Len(relay) = mail_stats.sent
          /\ mail_stats.sent + mail_stats.failed
                = IF mail_pc = "done" THEN mail_stats.total ELSE mail_row - 1)
    /\ [][mail_pc = "send_bulk_emails" /\ event' # event =>
            /\ event'.args = <<mail_row, recipients[mail_row]>>
            /\ mail_row' = mail_row + 1
            /\ mail_pc' = "done" <=> mail_row = Len(recipients)
            /\ UNCHANGED recipients
            /\ \/ /\ mail_stats' = [mail_stats EXCEPT !.sent = @ + 1]
                  /\ relay' = Append(relay, [to |-> recipients[mail_row].email,
                                             name |-> recipients[mail_row].name])
               \/ /\ mail_stats'.failed = mail_stats.failed + 1
                  /\ mail_stats'.sent = mail_stats.sent
                  /\ SubSeq(mail_stats'.errors, 1, mail_stats.failed) = mail_stats.errors
                  /\ mail_stats'.errors[mail_stats'.failed].user = recipients[mail_row].name
                  /\ relay' = relay]_vars
    /\ <>(mail_pc = "done")

\* A bulk send is over in which the first two users failed, one without an
\* email and one at the relay, and the third was sent.
SentAfterTwoFailures ==
    /\ mail_pc = "done" /\ Len(recipients) = 3
    /\ mail_stats.failed = 2 /\ mail_stats.sent = 1
    /\ mail_stats.errors[1].error = "No email address"
    /\ mail_stats.errors[2].error = "Authentication failed: SMTPAuthenticationError"
    /\ relay = <<[to |-> recipients[3].email, name |-> recipients[3].name]>>

\* C25: a submit during whose upsert the primary store has no client, or
\* raises at its first call or at its write, leaves every aggregate as it
\* was and writes nothing for the aggregate to the local file; the submit
\* ends as an ordinary one, with both turns in the list of the current key
\* and the screen, the selection, the user and the session identifier as
\* they were.
UnavailableUpsertIsSilent ==
    [][~rerun /\ event'.name \in {"submit", "submit_raised"}
          /\ event'.args[4][2] # "up" =>
         LET prompt == event'.args[1]
             outcome == event'.args[2]
             before == IF SelectedKey \in DOMAIN chat_histories
                       THEN chat_histories[SelectedKey] ELSE <<>>
             response == get_gemini_response(event'.args[3].system_instruction,
                                             before, prompt, outcome)
         IN  /\ user_sessions' = user_sessions
             /\ event'.args[4][1] = "up" =>
                   /\ event'.name = "submit"
                   /\ local_logs' = local_logs
             /\ Len(local_logs') <= Len(local_logs) + 1
             /\ \A i \in DOMAIN local_logs' : "chat_history" \notin DOMAIN local_logs'[i]
             /\ chat_histories' = DictSet(chat_histories, SelectedKey,
                                          SubmitTurns(before, prompt, response))
             /\ clock' = clock + 1
             /\ UNCHANGED <<nav_vars, user_vars, session_id, rerun>>]_vars

\* A second submit whose upsert found the store raising, after a first one
\* that created the aggregate.
SecondUpsertFoundStoreRaising ==
    /\ event.name = "submit"
    /\ event.args[4][1] = "up" /\ event.args[4][2] = "raise"
    /\ Len(conversations) = 2
    /\ Len(user_sessions) = 1 /\ Len(user_sessions[1].chat_history) = 1
    /\ Len(chat_histories[SelectedKey]) = 4

\* C26: the user is logged in exactly when the screen is not the login
\* screen, and exactly then the user id, the user's name and the username are
\* set; while nobody is logged in no step changes a selection, a turn list,
\* the conversation log or an aggregate.
LoggedInIffPastLogin ==
    /\ [](/\ logged_in <=> current_view # "login"
          /\ logged_in <=> Truthy(user_id)
          /\ logged_in <=> Truthy(user_name)
          /\ logged_in <=> Truthy(username))
    /\ [][~logged_in =>
             UNCHANGED <<selected_course, selected_cohort, selected_level,
                         chat_histories, conversations, user_sessions, local_logs>>]_vars

\* A user has logged out after a submit: nobody is logged in, the login
\* screen is current, and the selection and the log entry are still there.
LoggedOutAfterSubmit ==
    /\ ~logged_in /\ current_view = "login"
    /\ event.name = "logout"
    /\ Truthy(selected_level)
    /\ Len(conversations) = 1
    /\ username = None

\* C27: on the level_selection and chat screens of a logged-in user the
\* selected cohort is one of the cohorts of the selected course, and on the
\* chat screen the selected cohort has a configuration for the selected
\* level.
SelectionIsOfCatalog ==
    /\ logged_in /\ current_view \in {"level_selection", "chat"} =>
          /\ Truthy(selected_course) /\ Truthy(selected_cohort)
          /\ Val(selected_cohort) \in Range(Val(selected_course).cohorts)
    /\ logged_in /\ current_view = "chat" =>
          /\ Truthy(selected_level)
          /\ Str(Val(selected_level)) \in DOMAIN Val(selected_cohort).levels

\* The chat of the second course has been opened in a later login session
\* of the browser session.
ChatOfOtherCourseAfterRelogin ==
    /\ logged_in /\ current_view = "chat"
    /\ event.name = "level_pick"
    /\ selected_course = Some(STROKE_COURSE)
    /\ uuid_count >= 2

\* C28: a turn list changes only by a submit or Clear Chat, which change the
\* list of the current key and no other, by Logout, which drops every list,
\* and by the chat page shown for a key that has no list, which gives that
\* key an empty list and leaves the others; every other step, the
\* navigation among them, leaves all turn lists as they are.
OnlyChatStepsChangeTurnLists ==
    [][chat_histories' # chat_histories =>
         \/ /\ ~rerun /\ event'.name \in {"submit", "submit_raised", "clear_chat"}
            /\ current_view = "chat" /\ UNCHANGED nav_vars
            /\ DOMAIN chat_histories' = DOMAIN chat_histories \cup {SelectedKey}
            /\ \A k \in DOMAIN chat_histories \ {SelectedKey} :
                  chat_histories'[k] = chat_histories[k]
         \/ /\ Handled("logout")
            /\ chat_histories' = EmptyDict
         \/ /\ rerun /\ ~rerun' /\ current_view = "chat" /\ UNCHANGED nav_vars
            /\ SelectedKey \notin DOMAIN chat_histories
            /\ chat_histories' = DictSet(chat_histories, SelectedKey, <<>>)]_vars

\* The user is back in the chat of a key after leaving it, its two turns
\* still there, beside the list of another key.
BackInChatWithItsTurns ==
    /\ current_view = "chat" /\ event.name = "level_pick"
    /\ SelectedKey \in DOMAIN chat_histories
    /\ Len(chat_histories[SelectedKey]) = 2
    /\ \E k \in DOMAIN chat_histories : k # SelectedKey /\ chat_histories[k] = <<>>

\* The fields of an aggregate that are written when it is created.
CreationFields(a) ==
    <<a.session_id, a.user_id, a.user_name, a.course_id, a.course_name,
      a.cohort_id, a.cohort_name, a.bloom_level, a.chat_start_time>>

\* C29: the first submit of a login session creates the aggregate with the
\* user's name, the course, cohort and level of that turn and the time of
\* the turn; every later submit of the session, whatever is selected then,
\* adds its question and answer to that aggregate and leaves those fields of
\* every aggregate as they are.
AggregateKeepsFirstTurnFields ==
    [][Handled("submit") =>
         IF AggregatesOf(session_id, user_id) = <<>>
         THEN /\ Len(user_sessions') = Len(user_sessions) + 1
              /\ SubSeq(user_sessions', 1, Len(user_sessions)) = user_sessions
              /\ CreationFields(user_sessions'[Len(user_sessions')]) =
                    <<session_id, user_id, user_name,
                      Val(selected_course).id, Val(selected_course).name,
                      Val(selected_cohort).id, Val(selected_cohort).name,
                      Val(selected_level), clock'>>
         ELSE /\ Len(user_sessions') = Len(user_sessions)
              /\ \A i \in DOMAIN user_sessions :
                    /\ CreationFields(user_sessions'[i]) = CreationFields(user_sessions[i])
                    /\ Len(user_sessions'[i].chat_history) =
                          Len(user_sessions[i].chat_history)
                             + (IF /\ user_sessions[i].session_id = session_id
                                   /\ user_sessions[i].user_id = user_id
                                THEN 1 ELSE 0)]_vars

\* The second turn of a session, made in another cohort and level than the
\* first, is in the aggregate, which names the first turn's cohort and level.
AggregateOfTurnsInTwoCohorts ==
    /\ event.name = "submit"
    /\ Len(user_sessions) = 1 /\ Len(user_sessions[1].chat_history) = 2
    /\ user_sessions[1].cohort_id # Val(selected_cohort).id
    /\ user_sessions[1].bloom_level # Val(selected_level)

====
